---- MODULE Spec2Model ----
(***************************************************************************)
(* CV-Analyzer AI service: the response normalizer                         *)
(* (ResumeAnalyzerAgent._parse_agent_response), the analysis orchestrator  *)
(* (ResumeAnalyzerAgent.analyze_resume), the singleton accessors           *)
(* (get_agent / cleanup_agent) and the HTTP handlers of app/main.py.       *)
(*                                                                         *)
(* Texts are sequences of one-character strings, so that find, slicing,    *)
(* strip and JSON decoding are computed character by character.  Indices   *)
(* of the Python helpers are 0-based as in the source.                     *)
(***************************************************************************)
EXTENDS Integers, Sequences, FiniteSets, TLC

VARIABLES
    phase,            \* lifespan of the process: "init", "running", "stopped", "failed"
    max_analysis_length, \* settings.max_analysis_length
    _agent_instance,  \* the module global of agent.py: 0 (None) or an object id
    objs,             \* the ResumeAnalyzerAgent objects created so far: objs[id]._agent
    reqs,             \* the POST /analyze requests, one record per request
    exits,            \* history: who invoked __aexit__ of a session, and when
    last_get,         \* history: outcome of the latest get_agent call
    last_health,      \* body of the latest GET /health response
    calls,            \* history: number of module-level calls made (singleton runs)
    response_text,    \* normalizer runs: the raw reply handed to the normalizer
    payload,          \* normalizer runs: the text the reply was built around
    wrapping,         \* normalizer runs: how payload was wrapped into response_text
    parse_result      \* normalizer runs: outcome of _parse_agent_response

vars == <<phase, max_analysis_length, _agent_instance, objs, reqs, exits,
          last_get, last_health, calls, response_text, payload, wrapping,
          parse_result>>

(***************************************************************************)
(* Bounds of the model.                                                    *)
(***************************************************************************)
MaxRequests == 2
MaxContentLen == 3
MaxSetting == 2
MaxObjs == 3
MaxCalls == 5

(***************************************************************************)
(* Python string primitives used by the normalizer.                        *)
(***************************************************************************)
Whitespace == {" ", "\n", "\t", "\r"}

Min2(a, b) == IF a <= b THEN a ELSE b

Max2(a, b) == IF a >= b THEN a ELSE b

\* str.find(sub, start): lowest 0-based index >= start where sub occurs, else -1
Find(s, sub, start) ==
    LET hits == {i \in start .. (Len(s) - Len(sub)) :
                    SubSeq(s, i + 1, i + Len(sub)) = sub}
    IN IF hits = {} THEN -1
       ELSE CHOOSE i \in hits : \A j \in hits : i <= j

\* sub in s
Contains(s, sub) == Find(s, sub, 0) # -1

\* s[a:b] with Python's treatment of negative and out-of-range indices
Slice(s, a, b) ==
    LET n == Len(s)
        norm(x) == IF x < 0 THEN Max2(0, n + x) ELSE Min2(x, n)
    IN SubSeq(s, norm(a) + 1, norm(b))

\* str.strip()
Strip(s) ==
    LET keep == {i \in 1 .. Len(s) : s[i] \notin Whitespace}
    IN IF keep = {} THEN << >>
       ELSE SubSeq(s, CHOOSE i \in keep : \A j \in keep : i <= j,
                      CHOOSE i \in keep : \A j \in keep : i >= j)

(***************************************************************************)
(* json.loads, for the JSON subset over the modelled alphabet: objects,    *)
(* arrays, strings without escapes, integers, true, false, null.           *)
(* A decoded value is a record tagged by t.                                *)
(***************************************************************************)
JNum(n) == [t |-> "num", n |-> n]
JStr(s) == [t |-> "str", s |-> s]
JBool(b) == [t |-> "bool", b |-> b]
JNull == [t |-> "null"]
JArr(a) == [t |-> "arr", a |-> a]
JObj(o) == [t |-> "obj", o |-> o]

Digits == {"0", "1", "2", "3", "4", "5", "6", "7", "8", "9"}

DigitVal(c) ==
    CASE c = "0" -> 0 [] c = "1" -> 1 [] c = "2" -> 2 [] c = "3" -> 3
      [] c = "4" -> 4 [] c = "5" -> 5 [] c = "6" -> 6 [] c = "7" -> 7
      [] c = "8" -> 8 [] c = "9" -> 9

DecodeFail == [ok |-> FALSE]

Decoded(v, e) == [ok |-> TRUE, val |-> v, end |-> e]

RECURSIVE SkipWs(_, _)
SkipWs(s, i) ==
    IF i <= Len(s) /\ s[i] \in Whitespace THEN SkipWs(s, i + 1) ELSE i

RECURSIVE ScanDigits(_, _, _)
ScanDigits(s, i, acc) ==
    IF i <= Len(s) /\ s[i] \in Digits
    THEN ScanDigits(s, i + 1, 10 * acc + DigitVal(s[i]))
    ELSE [n |-> acc, end |-> i]

\* NUMBER_RE: -?(0|[1-9][0-9]*), the integer part of a JSON number
ScanNumber(s, i) ==
    LET neg == s[i] = "-"
        d == IF neg THEN i + 1 ELSE i
    IN IF d > Len(s) \/ s[d] \notin Digits THEN DecodeFail
       ELSE IF s[d] = "0"
            THEN Decoded(JNum(0), d + 1)
            ELSE LET r == ScanDigits(s, d, 0)
                 IN Decoded(JNum(IF neg THEN 0 - r.n ELSE r.n), r.end)

\* py_scanstring in strict mode: i is the position after the opening quote
ScanString(s, i) ==
    LET quotes == {j \in i .. Len(s) : s[j] = "\""}
    IN IF quotes = {} THEN DecodeFail
       ELSE LET j == CHOOSE q \in quotes : \A p \in quotes : q <= p
                body == SubSeq(s, i, j - 1)
            IN IF \E p \in 1 .. Len(body) : body[p] \in {"\n", "\t", "\r"}
               THEN DecodeFail
               ELSE Decoded(JStr(body), j + 1)

Literal(s, i, word) ==
    /\ i + Len(word) - 1 <= Len(s)
    /\ SubSeq(s, i, i + Len(word) - 1) = word

RECURSIVE ParseValue(_, _)
RECURSIVE ParseMembers(_, _, _)
RECURSIVE ParseElements(_, _, _)

\* scanner.py_make_scanner._scan_once: the value starting at position i
ParseValue(s, i) ==
    IF i > Len(s) THEN DecodeFail
    ELSE IF s[i] = "\"" THEN ScanString(s, i + 1)
    ELSE IF s[i] = "{"
         THEN LET j == SkipWs(s, i + 1)
              IN IF j <= Len(s) /\ s[j] = "}"
                 THEN Decoded(JObj(<< >>), j + 1)
                 ELSE ParseMembers(s, j, << >>)
    ELSE IF s[i] = "["
         THEN LET j == SkipWs(s, i + 1)
              IN IF j <= Len(s) /\ s[j] = "]"
                 THEN Decoded(JArr(<< >>), j + 1)
                 ELSE ParseElements(s, j, << >>)
    ELSE IF Literal(s, i, <<"n", "u", "l", "l">>) THEN Decoded(JNull, i + 4)
    ELSE IF Literal(s, i, <<"t", "r", "u", "e">>) THEN Decoded(JBool(TRUE), i + 4)
    ELSE IF Literal(s, i, <<"f", "a", "l", "s", "e">>) THEN Decoded(JBool(FALSE), i + 5)
    ELSE IF s[i] \in Digits \cup {"-"} THEN ScanNumber(s, i)
    ELSE DecodeFail

\* decoder.JSONObject: members from position i on; a repeated key keeps the last value
ParseMembers(s, i, acc) ==
    IF i > Len(s) \/ s[i] # "\"" THEN DecodeFail
    ELSE LET k == ScanString(s, i + 1)
         IN IF ~k.ok THEN DecodeFail
            ELSE LET c == SkipWs(s, k.end)
                 IN IF c > Len(s) \/ s[c] # ":" THEN DecodeFail
                    ELSE LET v == ParseValue(s, SkipWs(s, c + 1))
                         IN IF ~v.ok THEN DecodeFail
                            ELSE LET d == SkipWs(s, v.end)
                                     acc2 == (k.val.s :> v.val) @@ acc
                                 IN IF d > Len(s) THEN DecodeFail
                                    ELSE IF s[d] = "}" THEN Decoded(JObj(acc2), d + 1)
                                    ELSE IF s[d] = ","
                                         THEN ParseMembers(s, SkipWs(s, d + 1), acc2)
                                    ELSE DecodeFail

\* decoder.JSONArray: elements from position i on
ParseElements(s, i, acc) ==
    LET v == ParseValue(s, i)
    IN IF ~v.ok THEN DecodeFail
       ELSE LET d == SkipWs(s, v.end)
                acc2 == Append(acc, v.val)
            IN IF d > Len(s) THEN DecodeFail
               ELSE IF s[d] = "]" THEN Decoded(JArr(acc2), d + 1)
               ELSE IF s[d] = "," THEN ParseElements(s, SkipWs(s, d + 1), acc2)
               ELSE DecodeFail

\* json.loads: one value, surrounded by optional whitespace; anything else
\* raises JSONDecodeError (ok = FALSE)
json_loads(s) ==
    LET v == ParseValue(s, SkipWs(s, 1))
    IN IF ~v.ok THEN DecodeFail
       ELSE IF SkipWs(s, v.end) = Len(s) + 1 THEN v
       ELSE DecodeFail

(***************************************************************************)
(* Text constants of agent.py.                                             *)
(***************************************************************************)
\* the grave accent, the character fences are made of (it cannot be written
\* inside a string literal here, so it has a name)
BT == "GRAVE"
FenceJson == <<BT, BT, BT, "j", "s", "o", "n">>
Fence == <<BT, BT, BT>>
k_score == <<"s","c","o","r","e">>
k_optimized_content == <<"o","p","t","i","m","i","z","e","d","_","c","o","n","t","e","n","t">>
k_suggestions == <<"s","u","g","g","e","s","t","i","o","n","s">>
k_reasoning == <<"r","e","a","s","o","n","i","n","g">>
k_category == <<"c","a","t","e","g","o","r","y">>
k_description == <<"d","e","s","c","r","i","p","t","i","o","n">>
k_priority == <<"p","r","i","o","r","i","t","y">>
s_System == <<"S","y","s","t","e","m">>
s_failed == <<"A","n","a","l","y","s","i","s"," ","p","a","r","s","i","n","g"," ","f","a","i","l","e","d","."," ","O","r","i","g","i","n","a","l"," ","c","o","n","t","e","n","t"," ","r","e","t","u","r","n","e","d",".">>
s_unable == <<"U","n","a","b","l","e"," ","t","o"," ","p","a","r","s","e"," ","A","I"," ","r","e","s","p","o","n","s","e","."," ","P","l","e","a","s","e"," ","t","r","y"," ","a","g","a","i","n",".">>
s_perr == <<"R","e","s","p","o","n","s","e"," ","p","a","r","s","i","n","g"," ","e","r","r","o","r">>

required_fields ==
    << [key |-> k_score, name |-> "score"],
       [key |-> k_optimized_content, name |-> "optimized_content"],
       [key |-> k_suggestions, name |-> "suggestions"] >>

(***************************************************************************)
(* The response normalizer.  An outcome is either a returned dictionary    *)
(* (a function from keys to decoded values) or a raised exception.         *)
(***************************************************************************)
Return(analysis) == [kind |-> "return", analysis |-> analysis]

Raise(exc, msg) == [kind |-> "raise", exc |-> exc, msg |-> msg]

\* the dictionary returned by the except json.JSONDecodeError branch
FallbackAnalysis ==
    (k_score :> JNum(70)) @@
    (k_optimized_content :> JStr(s_failed)) @@
    (k_suggestions :> JArr(<< JObj((k_category :> JStr(s_System)) @@
                                   (k_description :> JStr(s_unable)) @@
                                   (k_priority :> JNum(1))) >>)) @@
    (k_reasoning :> JStr(s_perr))

\* ExtractJsonText with the language tag left in the extracted text
ExtractJsonText_tagKept(text) ==
    IF Contains(text, Fence)
    THEN LET json_start == Find(text, Fence, 0) + 3
             json_end == Find(text, Fence, json_start)
         IN Strip(Slice(text, json_start, json_end))
    ELSE Strip(text)

\* the text handed to json.loads: the inside of the first fenced block if
\* the reply has one, else the whole reply, stripped
ExtractJsonText(text) ==
    IF Contains(text, FenceJson)
    THEN LET json_start == Find(text, FenceJson, 0) + 7
             json_end == Find(text, Fence, json_start)
         IN Strip(Slice(text, json_start, json_end))
    ELSE IF Contains(text, Fence)
    THEN LET json_start == Find(text, Fence, 0) + 3
             json_end == Find(text, Fence, json_start)
         IN Strip(Slice(text, json_start, json_end))
    ELSE Strip(text)

\* field in analysis, by the type of the decoded value: key lookup for a
\* dict, element membership for a list, substring test for a str; the
\* operator raises TypeError for a number, a bool or None
FieldIn(field, v) ==
    CASE v.t = "obj" -> field \in DOMAIN v.o
      [] v.t = "arr" -> \E i \in 1 .. Len(v.a) :
                            v.a[i].t = "str" /\ v.a[i].s = field
      [] v.t = "str" -> Contains(v.s, field)

\* the loop over required_fields: the exception it raises, or "ok"
ValidateRequired(v) ==
    IF v.t \in {"num", "bool", "null"}
    THEN Raise("TypeError", <<"argument of type is not iterable">>)
    ELSE LET missing == {i \in 1 .. Len(required_fields) :
                            ~FieldIn(required_fields[i].key, v)}
         IN IF missing = {} THEN [kind |-> "ok"]
            ELSE LET i == CHOOSE m \in missing : \A n \in missing : m <= n
                 IN Raise("ValueError",
                          <<"Missing required field: ", required_fields[i].name>>)

\* Clamp with min and max exchanged
Clamp_swapped(score) == Min2(0, Max2(100, score))

\* max(0, min(100, score))
Clamp(score) == Max2(0, Min2(100, score))

\* the score range check and clamp on a dict that has all required fields;
\* a bool compares as 0 or 1, any other non-number raises TypeError
ValidateScore(analysis) ==
    LET sc == analysis[k_score]
    IN IF sc.t = "num"
       THEN IF ~(0 <= sc.n /\ sc.n <= 100)
            THEN Return([analysis EXCEPT ![k_score] = JNum(Clamp(sc.n))])
            ELSE Return(analysis)
       ELSE IF sc.t = "bool" THEN Return(analysis)
       ELSE Raise("TypeError", <<"comparison not supported between instances">>)

\* _parse_agent_response without the except branch: JSONDecodeError, a
\* ValueError, reaches the caller
_parse_agent_response_noFallback(text) ==
    LET d == json_loads(ExtractJsonText(text))
    IN IF ~d.ok THEN Raise("ValueError", <<"Expecting value">>)
       ELSE LET req == ValidateRequired(d.val)
            IN IF req.kind = "raise" THEN req
               ELSE IF d.val.t # "obj"
                    THEN Raise("TypeError", <<"indices must be integers">>)
                    ELSE ValidateScore(d.val.o)

_parse_agent_response(text) ==
    LET d == json_loads(ExtractJsonText(text))
    IN IF ~d.ok THEN Return(FallbackAnalysis)
       ELSE LET req == ValidateRequired(d.val)
            IN IF req.kind = "raise" THEN req
               ELSE IF d.val.t # "obj"
                    THEN Raise("TypeError", <<"indices must be integers">>)
                    ELSE ValidateScore(d.val.o)

(***************************************************************************)
(* Reply texts.  A reply is a payload inside a wrapping; payloads are      *)
(* written out as JSON text from their parts.                              *)
(***************************************************************************)
Quote(s) == <<"\"">> \o s \o <<"\"">>

RECURSIVE DigitsOf(_)
DigitsOf(n) ==
    LET d == CHOOSE c \in Digits : DigitVal(c) = n % 10
    IN IF n < 10 THEN <<d>> ELSE Append(DigitsOf(n \div 10), d)

NumText(n) == IF n < 0 THEN <<"-">> \o DigitsOf(0 - n) ELSE DigitsOf(n)

Member(k, v) == Quote(k) \o <<":">> \o v

RECURSIVE Join(_, _)
Join(parts, sep) ==
    IF Len(parts) = 0 THEN << >>
    ELSE IF Len(parts) = 1 THEN parts[1]
    ELSE parts[1] \o sep \o Join(Tail(parts), sep)

ObjText(members) == <<"{">> \o Join(members, <<",">>) \o <<"}">>

ObjTextSpaced(members) ==
    <<"{", "\n", " ">> \o Join(members, <<" ", ",", "\n", " ">>) \o <<"\n", "}">>

SuggestionText(prio) ==
    ObjText(<< Member(k_category, Quote(<<"S", "k", "i", "l", "l", "s">>)),
               Member(k_description, Quote(<<"d">>)),
               Member(k_priority, NumText(prio)) >>)

ScoreValues == {-5, -1, 0, 1, 70, 100, 101, 150}

ScoreTexts ==
    {NumText(n) : n \in ScoreValues} \cup
    {Quote(<<"h", "i">>), <<"n", "u", "l", "l">>, <<"t", "r", "u", "e">>, <<"[", "]">>}

ContentTexts == {Quote(<<"X">>), Quote(<<"a", BT, "b">>), <<"7">>}

SuggestionsTexts ==
    {<<"[", "]">>, <<"[">> \o SuggestionText(1) \o <<"]">>,
     <<"[">> \o SuggestionText(9) \o <<"]">>, <<"3">>}

\* objects that have every required field
FullPayloads ==
    {ObjText(<< Member(k_score, sc), Member(k_optimized_content, oc),
                Member(k_suggestions, sg) >>) :
        sc \in ScoreTexts, oc \in {Quote(<<"X">>)}, sg \in SuggestionsTexts}
    \cup
    {ObjTextSpaced(<< Member(k_suggestions, sg), Member(k_score, sc),
                      Member(k_optimized_content, oc),
                      Member(k_reasoning, Quote(<<"r">>)) >>) :
        sc \in {NumText(n) : n \in ScoreValues}, oc \in ContentTexts,
        sg \in {<<"[", "]">>}}

\* an object given the score twice, and one whose content holds a fence marker
OddPayloads ==
    {ObjText(<< Member(k_score, NumText(5)), Member(k_score, NumText(150)),
                Member(k_optimized_content, Quote(<<"X">>)),
                Member(k_suggestions, <<"[", "]">>) >>),
     ObjText(<< Member(k_score, NumText(150)),
                Member(k_optimized_content, Quote(<<"a">> \o Fence \o <<"b">>)),
                Member(k_suggestions, <<"[", "]">>) >>)}

\* objects that lack a required field
PartialPayloads ==
    {ObjText(<< >>),
     ObjText(<< Member(k_optimized_content, Quote(<<"X">>)),
                Member(k_suggestions, <<"[", "]">>) >>),
     ObjText(<< Member(k_score, NumText(80)),
                Member(k_suggestions, <<"[", "]">>) >>),
     ObjText(<< Member(k_score, NumText(80)),
                Member(k_optimized_content, Quote(<<"X">>)) >>),
     ObjText(<< Member(k_score, NumText(150)) >>)}

\* JSON values that are not objects
NonObjectPayloads ==
    {<<"[", "]">>, <<"5">>, <<"n", "u", "l", "l">>, <<"t", "r", "u", "e">>,
     Quote(<<"a", "b", "c">>),
     Quote(k_score \o <<" ">> \o k_optimized_content \o <<" ">> \o k_suggestions),
     <<"[">> \o Join(<<Quote(k_score), Quote(k_optimized_content),
                       Quote(k_suggestions)>>, <<",">>) \o <<"]">>,
     <<"[">> \o Quote(k_score) \o <<"]">>}

NotJsonAtAll == <<"n", "o", "t", " ", "j", "s", "o", "n", " ", "a", "t", " ", "a", "l", "l">>

\* texts that json.loads rejects
MalformedPayloads ==
    {NotJsonAtAll, << >>,
     <<"{">> \o Member(k_score, NumText(5)),
     <<"{">> \o Member(k_score, NumText(5)) \o <<",", "}">>,
     <<"{">> \o Member(k_score, <<"0", "1">>) \o <<"}">>,
     <<"{">> \o Member(k_score, <<"-">>) \o <<"}">>,
     <<"{">> \o k_score \o <<":", "5", "}">>,
     <<"[", "1", ",", "]">>,
     <<"5", " ", "5">>,
     ObjText(<< Member(k_score, NumText(80)),
                Member(k_optimized_content, Quote(<<"X">>)),
                Member(k_suggestions, <<"[", "]">>) >>) \o <<BT>>,
     Quote(<<"a", "\n", "b">>)}

Payloads ==
    FullPayloads \cup OddPayloads \cup PartialPayloads \cup NonObjectPayloads
    \cup MalformedPayloads

Wrappings == {"bare", "padded", "json_fence", "json_fence_tight",
              "plain_fence", "prose_fence", "open_fence"}

Wrap(w, j) ==
    CASE w = "bare" -> j
      [] w = "padded" -> <<" ", "\n">> \o j \o <<"\n">>
      [] w = "json_fence" -> FenceJson \o <<"\n">> \o j \o <<"\n">> \o Fence
      [] w = "json_fence_tight" -> FenceJson \o j \o Fence
      [] w = "plain_fence" -> Fence \o <<"\n">> \o j \o <<"\n">> \o Fence
      [] w = "prose_fence" -> <<"O", "K", ":", "\n">> \o FenceJson \o <<"\n">>
                                \o j \o <<"\n">> \o Fence \o <<"\n", "b", "y", "e">>
      [] w = "open_fence" -> FenceJson \o <<"\n">> \o j

(***************************************************************************)
(* Normalizer runs: one reply, handed to _parse_agent_response.            *)
(***************************************************************************)
NoOutcome == [kind |-> "none"]

ServiceIdle ==
    /\ phase = "init"
    /\ max_analysis_length = 0
    /\ _agent_instance = 0
    /\ objs = << >>
    /\ reqs = << >>
    /\ exits = {}
    /\ last_get = NoOutcome
    /\ last_health = "none"
    /\ calls = 0

InitParse ==
    /\ ServiceIdle
    /\ payload \in Payloads
    /\ wrapping \in Wrappings
    /\ response_text = Wrap(wrapping, payload)
    /\ parse_result = NoOutcome

Normalize ==
    /\ parse_result = NoOutcome
    /\ parse_result' = _parse_agent_response(response_text)
    /\ UNCHANGED <<phase, max_analysis_length, _agent_instance, objs, reqs,
                   exits, last_get, last_health, calls, response_text,
                   payload, wrapping>>

NextParse == Normalize

SpecParse == InitParse /\ [][NextParse]_vars

(***************************************************************************)
(* The agent objects and the module-level singleton of agent.py.           *)
(* objs[id]._agent is TRUE when the object holds a ChatAgent session and   *)
(* FALSE when the field is None; _agent_instance = 0 stands for None.      *)
(***************************************************************************)
\* ResumeAnalyzerAgent(): self._agent = None
NewAgent == [_agent |-> FALSE]

\* initialize(): sets the session, or re-raises what the client
\* construction raised and leaves the field None
initialize(obj, ok) == IF ok THEN [obj EXCEPT !._agent = TRUE] ELSE obj

\* get_agent(): the instance is assigned before initialize() is awaited
get_agent(ok) ==
    IF _agent_instance # 0
    THEN [instance |-> _agent_instance, objs |-> objs,
          raised |-> FALSE, ret |-> _agent_instance]
    ELSE LET id == Len(objs) + 1
         IN [instance |-> id,
             objs |-> Append(objs, initialize(NewAgent, ok)),
             raised |-> ~ok,
             ret |-> IF ok THEN id ELSE 0]

\* close(): exits the session if there is one and clears the field
close(os, id) == IF os[id]._agent THEN [os EXCEPT ![id]._agent = FALSE] ELSE os

\* the record of one __aexit__ call on the session of object id, made by
\* request who, or by cleanup_agent when who = 0
ExitBy(who, id) ==
    [by |-> who, obj |-> id]

(***************************************************************************)
(* The orchestrator, ResumeAnalyzerAgent.analyze_resume, and the handler   *)
(* of POST /analyze.                                                       *)
(***************************************************************************)
Letters == <<"R", "e", "s", "u", "m", "e", "1", "2">>

\* request bodies that passed ResumeAnalysisRequest: validate_content
\* returns the stripped text, so any non-empty text without surrounding
\* whitespace reaches the handler
ContentOfLen(k) == [i \in 1 .. k |-> Letters[((i - 1) % Len(Letters)) + 1]]

Contents == {ContentOfLen(k) : k \in 1 .. MaxContentLen}

\* Truncate that marks the cut
Truncate_marked(content, n) ==
    IF Len(content) > n THEN Slice(content, 0, n) \o <<".", ".", ".">> ELSE content

\* content[:max_analysis_length] when the content is longer
Truncate(content, n) == IF Len(content) > n THEN Slice(content, 0, n) ELSE content

PromptHead == <<"Analyze this resume and provide a comprehensive evaluation:\n\nRESUME CONTENT:\n---\n">>

PromptTail == <<"\n---\n\nProvide your analysis in the specified JSON format.">>

\* the f-string of analyze_resume
BuildPrompt(content) == PromptHead \o content \o PromptTail

TimeoutMessage == <<"Analysis request timed out. Please try again.">>

GenericMessage == <<"An error occurred during resume analysis. Please try again later.">>

\* Suggestion(**s): the fields of models.Suggestion, for decoded values
\* that are strings and integers; a value that is not a mapping cannot be
\* unpacked, a field that is missing or out of range fails validation
\* with pydantic's ValidationError, which is a ValueError
SuggestionOutcome(e) ==
    IF e.t # "obj" THEN Raise("TypeError", <<"argument after ** must be a mapping">>)
    ELSE IF /\ {k_category, k_description, k_priority} \subseteq DOMAIN e.o
            /\ e.o[k_category].t = "str"
            /\ e.o[k_description].t = "str"
            /\ e.o[k_priority].t = "num"
            /\ e.o[k_priority].n >= 1
            /\ e.o[k_priority].n <= 5
         THEN [kind |-> "ok"]
         ELSE Raise("ValueError", <<"validation error for Suggestion">>)

\* [Suggestion(**s) for s in analysis["suggestions"]]
BuildSuggestions(v) ==
    IF v.t = "arr"
    THEN LET bad == {i \in 1 .. Len(v.a) : SuggestionOutcome(v.a[i]).kind = "raise"}
         IN IF bad = {} THEN Return(v.a)
            ELSE SuggestionOutcome(v.a[CHOOSE i \in bad : \A j \in bad : i <= j])
    ELSE IF (v.t = "str" /\ v.s = << >>) \/ (v.t = "obj" /\ DOMAIN v.o = {})
    THEN Return(<< >>)
    ELSE Raise("TypeError", <<"not iterable or not a mapping">>)

\* analyze_resume from the reply on: normalize, build the result tuple
AnalysisOutcome(text, content) ==
    LET p == _parse_agent_response(text)
    IN IF p.kind = "raise" THEN p
       ELSE LET sg == BuildSuggestions(p.analysis[k_suggestions])
            IN IF sg.kind = "raise" THEN sg
               ELSE [kind |-> "return",
                     score |-> p.analysis[k_score],
                     optimized_content |-> p.analysis[k_optimized_content],
                     suggestions |-> sg.analysis,
                     metadata |-> [content_length |-> Len(content)]]

\* ResumeAnalysisResponse(...): optimized_content has to be a str
ResponseModel(a) ==
    IF a.optimized_content.t = "str"
    THEN [kind |-> "ok"]
    ELSE Raise("ValueError", <<"validation error for ResumeAnalysisResponse">>)

\* the except clauses of the handler: ValueError -> 400 with str(e),
\* any other exception -> 500 with the fixed message
HttpError(e) ==
    IF e.exc = "ValueError"
    THEN [status |-> 400, detail |-> e.msg]
    ELSE [status |-> 500, detail |-> GenericMessage]

\* the handler's answer to what agent.analyze_resume returned or raised
HandlerResponse(a) ==
    IF a.kind = "raise" THEN HttpError(a)
    ELSE IF ResponseModel(a).kind = "raise" THEN HttpError(ResponseModel(a))
    ELSE [status |-> 200,
          body |-> [score |-> a.score, optimized_content |-> a.optimized_content,
                    suggestions |-> a.suggestions, analysis_metadata |-> a.metadata]]

\* the timeout left as asyncio.TimeoutError
TimeoutError_unmapped == Raise("TimeoutError", TimeoutMessage)

\* except asyncio.TimeoutError: raise ValueError(...)
TimeoutError == Raise("ValueError", TimeoutMessage)

NoResponse == [status |-> 0]

\* a request not yet received; content and prompt are the locals of the
\* handler, held while its remote call is pending
IdleReq ==
    [pc |-> "idle", content |-> << >>, prompt |-> << >>, agent |-> 0,
     run_calls |-> 0, call |-> "none", timed_out |-> FALSE, reply |-> << >>,
     responses |-> 0, response |-> NoResponse]

Requests == 1 .. MaxRequests

\* replies the remote agent gives in service runs
ServiceReplies ==
    {Wrap("json_fence", ObjText(<< Member(k_score, NumText(150)),
                                   Member(k_optimized_content, Quote(<<"X">>)),
                                   Member(k_suggestions, <<"[", "]">>) >>)),
     ObjText(<< Member(k_score, NumText(70)),
                Member(k_optimized_content, Quote(<<"X">>)),
                Member(k_suggestions, <<"[">> \o SuggestionText(1) \o <<"]">>) >>),
     NotJsonAtAll,
     Wrap("json_fence", <<"{">> \o Member(k_score, NumText(5))),
     ObjText(<< Member(k_optimized_content, Quote(<<"X">>)),
                Member(k_suggestions, <<"[", "]">>) >>),
     ObjText(<< Member(k_score, Quote(<<"h", "i">>)),
                Member(k_optimized_content, Quote(<<"X">>)),
                Member(k_suggestions, <<"[", "]">>) >>),
     ObjText(<< Member(k_score, NumText(70)),
                Member(k_optimized_content, Quote(<<"X">>)),
                Member(k_suggestions, <<"[">> \o SuggestionText(9) \o <<"]">>) >>)}

\* one reply for each status the handler can answer with
LiveReplies ==
    {NotJsonAtAll,
     ObjText(<< Member(k_optimized_content, Quote(<<"X">>)),
                Member(k_suggestions, <<"[", "]">>) >>),
     ObjText(<< Member(k_score, Quote(<<"h", "i">>)),
                Member(k_optimized_content, Quote(<<"X">>)),
                Member(k_suggestions, <<"[", "]">>) >>)}

ParseIdle ==
    /\ response_text = << >>
    /\ payload = << >>
    /\ wrapping = "none"
    /\ parse_result = NoOutcome

\* the handler up to its suspension in asyncio.wait_for: get_agent, the
\* initialization check, truncation, the prompt, entering the session and
\* submitting the prompt; a failure before the call is answered at once
Receive(r, content, ok) ==
    /\ reqs[r].pc = "idle"
    /\ _agent_instance # 0 => ok
    /\ _agent_instance = 0 => Len(objs) < MaxObjs
    /\ LET g == get_agent(ok)
       IN /\ _agent_instance' = g.instance
          /\ objs' = g.objs
          /\ IF g.raised \/ ~g.objs[g.ret]._agent
             THEN reqs' = [reqs EXCEPT ![r] =
                      [@ EXCEPT !.pc = "done",
                                !.responses = @ + 1,
                                !.response = HttpError(Raise("RuntimeError",
                                                 <<"Agent not initialized.">>))]]
             ELSE reqs' = [reqs EXCEPT ![r] =
                      [@ EXCEPT !.pc = "awaiting", !.content = content,
                                !.prompt = BuildPrompt(Truncate(content, max_analysis_length)),
                                !.agent = g.ret,
                                !.run_calls = @ + 1,
                                !.call = "pending"]]
    /\ UNCHANGED <<phase, max_analysis_length, exits, last_get, last_health,
                   calls, response_text, payload, wrapping, parse_result>>

\* the remote call returns text within the timeout: the session block is
\* left, the text normalized, the result returned and answered
ReplyArrives(r, text) ==
    /\ reqs[r].pc = "awaiting"
    /\ exits' = exits \cup {ExitBy(r, reqs[r].agent)}
    /\ reqs' = [reqs EXCEPT ![r] =
           [@ EXCEPT !.pc = "done", !.call = "completed", !.reply = text,
                     !.content = << >>, !.prompt = << >>,
                     !.responses = @ + 1,
                     !.response = HandlerResponse(
                         AnalysisOutcome(text,
                             Truncate(reqs[r].content, max_analysis_length)))]]
    /\ UNCHANGED <<phase, max_analysis_length, _agent_instance, objs, last_get,
                   last_health, calls, response_text, payload, wrapping,
                   parse_result>>

\* Timeout that submits the prompt a second time before giving up
Timeout_retry(r) ==
    /\ reqs[r].pc = "awaiting"
    /\ IF reqs[r].run_calls < 2
       THEN /\ reqs' = [reqs EXCEPT ![r].run_calls = @ + 1]
            /\ exits' = exits
       ELSE /\ exits' = exits \cup {ExitBy(r, reqs[r].agent)}
            /\ reqs' = [reqs EXCEPT ![r] =
                   [@ EXCEPT !.pc = "done", !.call = "cancelled", !.timed_out = TRUE,
                             !.responses = @ + 1,
                             !.response = HandlerResponse(TimeoutError)]]
    /\ UNCHANGED <<phase, max_analysis_length, _agent_instance, objs, last_get,
                   last_health, calls, response_text, payload, wrapping,
                   parse_result>>

\* request_timeout expires first: wait_for cancels the call and raises
\* asyncio.TimeoutError, the session block is left, ValueError is raised
Timeout(r) ==
    /\ reqs[r].pc = "awaiting"
    /\ exits' = exits \cup {ExitBy(r, reqs[r].agent)}
    /\ reqs' = [reqs EXCEPT ![r] =
           [@ EXCEPT !.pc = "done", !.call = "cancelled", !.timed_out = TRUE,
                     !.content = << >>, !.prompt = << >>,
                     !.responses = @ + 1,
                     !.response = HandlerResponse(TimeoutError)]]
    /\ UNCHANGED <<phase, max_analysis_length, _agent_instance, objs, last_get,
                   last_health, calls, response_text, payload, wrapping,
                   parse_result>>

\* agent.run raises: the session block is left and the exception re-raised
RemoteFails(r) ==
    /\ reqs[r].pc = "awaiting"
    /\ exits' = exits \cup {ExitBy(r, reqs[r].agent)}
    /\ reqs' = [reqs EXCEPT ![r] =
           [@ EXCEPT !.pc = "done", !.call = "failed",
                     !.content = << >>, !.prompt = << >>,
                     !.responses = @ + 1,
                     !.response = HandlerResponse(Raise("Exception", <<"remote failure">>))]]
    /\ UNCHANGED <<phase, max_analysis_length, _agent_instance, objs, last_get,
                   last_health, calls, response_text, payload, wrapping,
                   parse_result>>

\* GET /health
health_check(ok) ==
    /\ _agent_instance # 0 => ok
    /\ _agent_instance = 0 => Len(objs) < MaxObjs
    /\ LET g == get_agent(ok)
           ai_connected == ~g.raised /\ g.objs[g.ret]._agent
       IN /\ _agent_instance' = g.instance
          /\ objs' = g.objs
          /\ last_health' = IF ai_connected THEN "healthy" ELSE "degraded"
    /\ UNCHANGED <<phase, max_analysis_length, reqs, exits, last_get, calls,
                   response_text, payload, wrapping, parse_result>>

\* cleanup_agent(): close the instance if there is one and forget it
cleanup_agent ==
    /\ IF _agent_instance # 0
       THEN /\ objs' = close(objs, _agent_instance)
            /\ exits' = IF objs[_agent_instance]._agent
                        THEN exits \cup {ExitBy(0, _agent_instance)}
                        ELSE exits
            /\ _agent_instance' = 0
       ELSE UNCHANGED <<objs, exits, _agent_instance>>

(***************************************************************************)
(* The service: lifespan startup, requests while running, shutdown once    *)
(* the server has drained its requests.                                    *)
(***************************************************************************)
Init ==
    /\ phase = "init"
    /\ max_analysis_length \in 1 .. MaxSetting
    /\ _agent_instance = 0
    /\ objs = << >>
    /\ reqs = [r \in Requests |-> IdleReq]
    /\ exits = {}
    /\ last_get = NoOutcome
    /\ last_health = "none"
    /\ calls = 0
    /\ ParseIdle

\* lifespan before yield: get_agent(); a failure ends the process
Startup ==
    /\ phase = "init"
    /\ \E ok \in BOOLEAN :
         LET g == get_agent(ok)
         IN /\ _agent_instance' = g.instance
            /\ objs' = g.objs
            /\ phase' = IF g.raised THEN "failed" ELSE "running"
    /\ UNCHANGED <<max_analysis_length, reqs, exits, last_get, last_health,
                   calls, response_text, payload, wrapping, parse_result>>

\* lifespan after yield: cleanup_agent()
Shutdown ==
    /\ phase = "running"
    /\ \A r \in Requests : reqs[r].pc # "awaiting"
    /\ cleanup_agent
    /\ phase' = "stopped"
    /\ UNCHANGED <<max_analysis_length, reqs, last_get, last_health, calls,
                   response_text, payload, wrapping, parse_result>>

\* requests are numbered in their order of arrival
Analyze(r) ==
    /\ phase = "running"
    /\ \A q \in 1 .. (r - 1) : reqs[q].pc # "idle"
    /\ \E content \in Contents : Receive(r, content, TRUE)

Reply(r) == \E text \in ServiceReplies : ReplyArrives(r, text)

Health ==
    /\ phase = "running"
    /\ health_check(TRUE)

Next ==
    \/ Startup
    \/ Shutdown
    \/ Health
    \/ \E r \in Requests : Analyze(r)
    \/ \E r \in Requests : Reply(r)
    \/ \E r \in Requests : Timeout(r)
    \/ \E r \in Requests : RemoteFails(r)

Spec == Init /\ [][Next]_vars

ReplyLive(r) == \E text \in LiveReplies : ReplyArrives(r, text)

NextLive ==
    \/ Startup
    \/ Shutdown
    \/ \E r \in Requests : Analyze(r)
    \/ \E r \in Requests : ReplyLive(r)
    \/ \E r \in Requests : Timeout(r)
    \/ \E r \in Requests : RemoteFails(r)

\* the service with the timer of asyncio.wait_for: the timeout of a pending
\* call eventually fires unless the call ends first
SpecLive ==
    /\ Init
    /\ [][NextLive]_vars
    /\ \A r \in Requests : WF_vars(Timeout(r))


(***************************************************************************)
(* The module used directly: get_agent, cleanup_agent and the handlers     *)
(* called in any order, with initialize() free to fail.                    *)
(***************************************************************************)
InitModule ==
    /\ phase = "init"
    /\ max_analysis_length = MaxSetting
    /\ _agent_instance = 0
    /\ objs = << >>
    /\ reqs = [r \in Requests |-> IdleReq]
    /\ exits = {}
    /\ last_get = NoOutcome
    /\ last_health = "none"
    /\ calls = 0
    /\ ParseIdle

CallGetAgent ==
    /\ calls < MaxCalls
    /\ \E ok \in BOOLEAN :
         /\ _agent_instance # 0 => ok
         /\ _agent_instance = 0 => Len(objs) < MaxObjs
         /\ LET g == get_agent(ok)
            IN /\ _agent_instance' = g.instance
               /\ objs' = g.objs
               /\ last_get' = IF g.raised THEN [kind |-> "raise"]
                              ELSE [kind |-> "return", agent |-> g.ret,
                                    initialized |-> g.objs[g.ret]._agent]
    /\ calls' = calls + 1
    /\ UNCHANGED <<phase, max_analysis_length, reqs, exits, last_health,
                   response_text, payload, wrapping, parse_result>>

CallCleanup ==
    /\ calls < MaxCalls
    /\ cleanup_agent
    /\ calls' = calls + 1
    /\ UNCHANGED <<phase, max_analysis_length, reqs, last_get, last_health,
                   response_text, payload, wrapping, parse_result>>

CallHealth == \E ok \in BOOLEAN : health_check(ok)

CallAnalyze(r) == \E ok \in BOOLEAN : Receive(r, ContentOfLen(MaxContentLen), ok)

NextModule ==
    \/ CallGetAgent
    \/ CallCleanup
    \/ CallHealth
    \/ \E r \in Requests : CallAnalyze(r)
    \/ \E r \in Requests : ReplyLive(r)
    \/ \E r \in Requests : Timeout(r)

SpecModule == InitModule /\ [][NextModule]_vars

(***************************************************************************)
(* Properties of the response normalizer (SpecParse).                      *)
(***************************************************************************)
\* what json.loads made of the text extracted from the reply under test
DecodedReply == json_loads(ExtractJsonText(response_text))

HasAllRequired(v) ==
    /\ v.t = "obj"
    /\ {k_score, k_optimized_content, k_suggestions} \subseteq DOMAIN v.o

\* C1: for every raw reply the normalizer returns a dictionary and never
\* raises; a reply that decodes to an object lacking score,
\* optimized_content or suggestions, or whose score is not a number, yields
\* the fixed fallback object.
C1_NeverRaisesFallsBack ==
    parse_result # NoOutcome =>
        /\ parse_result.kind = "return"
        /\ (/\ DecodedReply.ok
            /\ DecodedReply.val.t = "obj"
            /\ \/ ~HasAllRequired(DecodedReply.val)
               \/ DecodedReply.val.o[k_score].t \notin {"num", "bool"})
           => parse_result.analysis = FallbackAnalysis

\* C3: a reply that decodes to an object with all required fields and a
\* numeric score s is returned with score 0 if s < 0, 100 if s > 100 and s
\* otherwise, and with optimized_content and suggestions as decoded.
C3_ScoreClamped ==
    (/\ parse_result # NoOutcome
     /\ DecodedReply.ok
     /\ HasAllRequired(DecodedReply.val)
     /\ DecodedReply.val.o[k_score].t = "num")
    => LET s == DecodedReply.val.o[k_score].n
           expected == IF s < 0 THEN 0 ELSE IF s > 100 THEN 100 ELSE s
       IN /\ parse_result.kind = "return"
          /\ parse_result.analysis[k_score] = JNum(expected)
          /\ parse_result.analysis[k_optimized_content]
                 = DecodedReply.val.o[k_optimized_content]
          /\ parse_result.analysis[k_suggestions]
                 = DecodedReply.val.o[k_suggestions]

\* the scenario of the specification: score 150 inside a json fence comes
\* back as 100
C3_Witness ==
    /\ wrapping = "json_fence"
    /\ payload = ObjText(<< Member(k_score, NumText(150)),
                            Member(k_optimized_content, Quote(<<"X">>)),
                            Member(k_suggestions, <<"[", "]">>) >>)
    /\ parse_result.kind = "return"
    /\ parse_result.analysis[k_score] = JNum(100)
    /\ parse_result.analysis[k_optimized_content] = JStr(<<"X">>)
    /\ parse_result.analysis[k_suggestions] = JArr(<< >>)

\* C4: a JSON payload holding no fence marker, wrapped in a fenced block
\* tagged json, is normalized to the same outcome as the payload unwrapped.
C4_FencedSameAsBare ==
    (/\ parse_result # NoOutcome
     /\ wrapping \in {"json_fence", "json_fence_tight"}
     /\ json_loads(payload).ok
     /\ ~Contains(payload, Fence))
    => parse_result = _parse_agent_response(payload)

C4_Witness ==
    /\ wrapping = "json_fence_tight"
    /\ json_loads(payload).ok
    /\ ~Contains(payload, Fence)
    /\ Contains(payload, <<BT>>)
    /\ parse_result.kind = "return"
    /\ parse_result.analysis # FallbackAnalysis

(***************************************************************************)
(* Properties of the service (Spec, SpecLive).                             *)
(***************************************************************************)
Answered(r) == reqs[r].pc = "done"

\* C2: when the remote call completes with text from which no JSON can be
\* decoded, the request is answered 200 with the fallback result: score
\* 70, the parsing-failed content, one suggestion of category System and
\* priority 1.
C2_UnparseableReplyAnswered200 ==
    \A r \in Requests :
        (/\ Answered(r)
         /\ reqs[r].call = "completed"
         /\ ~json_loads(ExtractJsonText(reqs[r].reply)).ok)
        => /\ reqs[r].response.status = 200
           /\ reqs[r].response.body.score = JNum(70)
           /\ reqs[r].response.body.optimized_content = JStr(s_failed)
           /\ Len(reqs[r].response.body.suggestions) = 1
           /\ reqs[r].response.body.suggestions[1].o[k_category] = JStr(s_System)
           /\ reqs[r].response.body.suggestions[1].o[k_priority] = JNum(1)

C2_Witness ==
    \E r \in Requests :
        /\ Answered(r)
        /\ reqs[r].reply = NotJsonAtAll
        /\ reqs[r].response.status = 200

\* the first n characters of a text, by position
FirstChars(text, n) == [i \in 1 .. (IF Len(text) < n THEN Len(text) ELSE n) |-> text[i]]

\* C5: the text embedded in the prompt of a pending call is the first
\* max_analysis_length characters of the content when the content is
\* longer, with nothing added, and the content itself otherwise.
C5_PromptEmbedsFirstN ==
    \A r \in Requests :
        reqs[r].pc = "awaiting" =>
            /\ Len(reqs[r].prompt) >= Len(PromptHead) + Len(PromptTail)
            /\ SubSeq(reqs[r].prompt, 1, Len(PromptHead)) = PromptHead
            /\ SubSeq(reqs[r].prompt, Len(reqs[r].prompt) - Len(PromptTail) + 1,
                      Len(reqs[r].prompt)) = PromptTail
            /\ SubSeq(reqs[r].prompt, Len(PromptHead) + 1,
                      Len(reqs[r].prompt) - Len(PromptTail))
                   = IF Len(reqs[r].content) > max_analysis_length
                     THEN FirstChars(reqs[r].content, max_analysis_length)
                     ELSE reqs[r].content

C5_Witness ==
    \E r \in Requests :
        /\ reqs[r].pc = "awaiting"
        /\ Len(reqs[r].content) > max_analysis_length
        /\ Len(reqs[r].prompt) = Len(PromptHead) + max_analysis_length + Len(PromptTail)

\* C6: a request whose remote call ran into request_timeout has its call
\* cancelled and is answered 400 with exactly the timeout message and no
\* result.
C6_TimeoutAnswered400 ==
    \A r \in Requests :
        reqs[r].timed_out =>
            /\ reqs[r].call = "cancelled"
            /\ reqs[r].reply = << >>
            /\ reqs[r].response = [status |-> 400, detail |-> TimeoutMessage]

C6_Witness ==
    \E r \in Requests :
        /\ reqs[r].timed_out
        /\ Answered(r)
        /\ reqs[r].response.status = 400

\* C7: the only failure answered 400 with its own message is the timeout;
\* every other failure is answered 500 with the fixed generic message.
C7_OnlyTimeoutVerbatim ==
    \A r \in Requests :
        (Answered(r) /\ reqs[r].response.status # 200) =>
            IF reqs[r].timed_out
            THEN reqs[r].response = [status |-> 400, detail |-> TimeoutMessage]
            ELSE reqs[r].response = [status |-> 500, detail |-> GenericMessage]

\* C8: while the service runs, the shared session reference stays the one
\* set at startup and no request invokes the exit operation of a session,
\* so no session with a pending call of one request is exited by another.
C8_SessionUntouchedByRequests ==
    phase = "running" =>
        /\ _agent_instance = 1
        /\ objs[1]._agent
        /\ \A e \in exits : e.by = 0

\* C9: a request that reached the orchestrator submits its prompt at most
\* once, is answered at most once, is answered with 200, 400 or 500, and
\* every pending request is eventually answered.
C9_OneCallOneResponse ==
    /\ [](\A r \in Requests :
            /\ reqs[r].run_calls <= 1
            /\ reqs[r].responses <= 1
            /\ Answered(r) => /\ reqs[r].responses = 1
                              /\ reqs[r].response.status \in {200, 400, 500})
    /\ \A r \in Requests : (reqs[r].pc = "awaiting") ~> Answered(r)

C9_Witness ==
    \E r \in Requests :
        /\ Answered(r)
        /\ reqs[r].timed_out
        /\ reqs[r].run_calls = 1
        /\ reqs[r].responses = 1

(***************************************************************************)
(* Property of the singleton accessors (SpecModule).                       *)
(***************************************************************************)
\* C10: every get_agent call that returns normally returns an agent whose
\* session is initialized.
C10_GetAgentReturnsInitialized ==
    last_get.kind = "return" => last_get.initialized

====
